---- MODULE Spec2Model ----
(***************************************************************************)
(* A model of the fuel_monitor crate: the validated value type FuelLevel   *)
(* and the bounded history FuelMonitor (src/fuel_monitor/src/lib.rs).      *)
(*                                                                         *)
(* f64 is modelled by a binary floating-point format of the IEEE-754       *)
(* family with a shorter significand and a narrower exponent range:        *)
(* signed zeros, subnormals, normals, two infinities, one NaN, and         *)
(* round-to-nearest-even after every operation.  A finite value is kept as *)
(* a sign and a count n of units, one unit being the smallest subnormal.   *)
(***************************************************************************)
EXTENDS Integers, Sequences, FiniteSets

\* ---------------------------------------------------------------------
\* The floating-point format
\* ---------------------------------------------------------------------

\* bits of the significand, hidden bit included (f64: 53)
MantDigits == 7
\* number of binades above the smallest normal binade (f64: 2045)
ExpRange == 12
\* 1.0 is 2^OneExp units (f64: 2^1074)
OneExp == 8

RECURSIVE Pow2(_)
Pow2(k) == IF k <= 0 THEN 1 ELSE 2 * Pow2(k - 1)

\* the first significand that no longer fits
MantLimit == Pow2(MantDigits)
\* the largest finite value, in units (f64::MAX)
MaxUnits == (MantLimit - 1) * Pow2(ExpRange)
UnitsPerOne == Pow2(OneExp)

Fin(s, n) == [k |-> "fin", s |-> s, n |-> n]
Inf(s) == [k |-> "inf", s |-> s, n |-> 0]
NaN == [k |-> "nan", s |-> 0, n |-> 0]

PosZero == Fin(0, 0)
NegZero == Fin(1, 0)
F64Max == Fin(0, MaxUnits)

\* every value of the format
F64s ==
    {Fin(s, m * Pow2(j)) : s \in {0, 1}, m \in 0..(MantLimit - 1), j \in 0..ExpRange}
        \cup {Inf(0), Inf(1), NaN}

\* the distance between neighbouring values at magnitude q units
RECURSIVE Spacing(_)
Spacing(q) == IF q < MantLimit THEN 1 ELSE 2 * Spacing(q \div 2)

\* the non-negative rational a / b units, rounded to the nearest value of the
\* format, ties to the even significand, overflowing to infinity
Round(s, a, b) ==
    LET q == a \div b
        g == b * Spacing(q)
        k == a \div g
        rem == a % g
        up == (rem > g - rem) \/ (rem = g - rem /\ k % 2 = 1)
        n == (IF up THEN k + 1 ELSE k) * Spacing(q)
    IN  IF n > MaxUnits THEN Inf(s) ELSE Fin(s, n)

\* i as f64, for a non-negative integer i
FromInt(i) == Round(0, i * UnitsPerOne, 1)

is_nan(x) == x.k = "nan"
is_infinite(x) == x.k = "inf"

\* the position of a non-NaN value on the extended real line, in units
Key(x) ==
    LET mag == IF x.k = "inf" THEN MaxUnits + 1 ELSE x.n
    IN  IF x.s = 1 THEN 0 - mag ELSE mag

\* the comparison operators of f64: every comparison with NaN is false,
\* and the two zeros are equal
FLt(x, y) == ~is_nan(x) /\ ~is_nan(y) /\ Key(x) < Key(y)
FGt(x, y) == FLt(y, x)
FEq(x, y) == ~is_nan(x) /\ ~is_nan(y) /\ Key(x) = Key(y)

\* x + y
FAdd(x, y) ==
    IF is_nan(x) \/ is_nan(y) THEN NaN
    ELSE IF is_infinite(x) /\ is_infinite(y)
        THEN (IF x.s = y.s THEN x ELSE NaN)
    ELSE IF is_infinite(x) THEN x
    ELSE IF is_infinite(y) THEN y
    ELSE LET sum == Key(x) + Key(y)
         IN  IF sum = 0
                 THEN (IF x.s = 1 /\ y.s = 1 THEN NegZero ELSE PosZero)
             ELSE IF sum < 0 THEN Round(1, 0 - sum, 1)
             ELSE Round(0, sum, 1)

SignXor(x, y) == IF x.s = y.s THEN 0 ELSE 1

\* x * y; the product of two finite values is x.n * y.n / UnitsPerOne units
\* (the first branch is the same quotient with the division done first)
FMul(x, y) ==
    IF is_nan(x) \/ is_nan(y) THEN NaN
    ELSE IF is_infinite(x) \/ is_infinite(y)
        THEN (IF (x.k = "fin" /\ x.n = 0) \/ (y.k = "fin" /\ y.n = 0)
                  THEN NaN ELSE Inf(SignXor(x, y)))
    ELSE IF y.n % UnitsPerOne = 0
        THEN Round(SignXor(x, y), x.n * (y.n \div UnitsPerOne), 1)
    ELSE Round(SignXor(x, y), x.n * y.n, UnitsPerOne)

\* x / y; the quotient of two finite values is x.n * UnitsPerOne / y.n units
FDiv(x, y) ==
    IF is_nan(x) \/ is_nan(y) THEN NaN
    ELSE IF is_infinite(x)
        THEN (IF is_infinite(y) THEN NaN ELSE Inf(SignXor(x, y)))
    ELSE IF is_infinite(y) THEN Fin(SignXor(x, y), 0)
    ELSE IF y.n = 0
        THEN (IF x.n = 0 THEN NaN ELSE Inf(SignXor(x, y)))
    ELSE Round(SignXor(x, y), x.n * UnitsPerOne, y.n)

\* the literals 0.0 and 1000.0
ZeroLit == PosZero
ThousandLit == FromInt(1000)

\* ---------------------------------------------------------------------
\* FuelLevel
\* ---------------------------------------------------------------------

FuelLevel(litres) == [level_litres |-> litres]

\* FuelLevel::zero
zero == FuelLevel(ZeroLit)

\* what a call produces: a value, an error value or a panic
Returned(level) == [tag |-> "Returned", err |-> "", level |-> level]
Ok(level) == [tag |-> "Ok", err |-> "", level |-> level]
Err(e) == [tag |-> "Err", err |-> e, level |-> zero]
Panicked(msg) == [tag |-> "Panicked", err |-> msg, level |-> zero]
Some(level) == [tag |-> "Some", err |-> "", level |-> level]
None == [tag |-> "None", err |-> "", level |-> zero]

\* with_litres without the test for an infinity
with_litres_NoInfinityTest(litres) ==
    IF FLt(litres, ZeroLit)
        THEN Panicked("Negative fuel level not supported")
    ELSE IF is_nan(litres)
        THEN Panicked("Float value is illegal")
    ELSE Returned(FuelLevel(litres))

\* FuelLevel::with_litres
with_litres(litres) ==
    IF FLt(litres, ZeroLit)
        THEN Panicked("Negative fuel level not supported")
    ELSE IF is_nan(litres) \/ is_infinite(litres)
        THEN Panicked("Float value is illegal")
    ELSE Returned(FuelLevel(litres))

\* with_millilitres testing for NaN and infinity before the sign
with_millilitres_InvalidFirst(ml) ==
    IF is_nan(ml) \/ is_infinite(ml)
        THEN Err("InvalidFuelLevel")
    ELSE IF FLt(ml, ZeroLit)
        THEN Err("NegativeFuelLevel")
    ELSE Ok(FuelLevel(FDiv(ml, ThousandLit)))

\* with_millilitres storing the millilitres as litres
with_millilitres_Unscaled(ml) ==
    IF FLt(ml, ZeroLit)
        THEN Err("NegativeFuelLevel")
    ELSE IF is_nan(ml) \/ is_infinite(ml)
        THEN Err("InvalidFuelLevel")
    ELSE Ok(FuelLevel(ml))

\* FuelLevel::with_millilitres
with_millilitres(ml) ==
    IF FLt(ml, ZeroLit)
        THEN Err("NegativeFuelLevel")
    ELSE IF is_nan(ml) \/ is_infinite(ml)
        THEN Err("InvalidFuelLevel")
    ELSE Ok(FuelLevel(FDiv(ml, ThousandLit)))

\* FuelLevel::as_litres
as_litres(self) == self.level_litres

\* FuelLevel::as_millilitres
as_millilitres(self) == FMul(self.level_litres, ThousandLit)

\* the derived PartialEq of FuelLevel
LevelEq(a, b) == FEq(a.level_litres, b.level_litres)

\* cmp with the Greater arm lost
cmp_NoGreater(self, rhs) ==
    IF FLt(self.level_litres, rhs.level_litres) THEN "Less" ELSE "Equal"

\* Ord::cmp of FuelLevel
cmp(self, rhs) ==
    IF FLt(self.level_litres, rhs.level_litres) THEN "Less"
    ELSE IF FGt(self.level_litres, rhs.level_litres) THEN "Greater"
    ELSE "Equal"

\* PartialEq of Result<FuelLevel, Error>, as assert_eq! uses it
ResultEq(a, b) ==
    /\ a.tag = b.tag
    /\ a.tag = "Ok" => LevelEq(a.level, b.level)
    /\ a.tag = "Err" => a.err = b.err

\* FUEL_LEVEL_MAX
FUEL_LEVEL_MAX == with_litres(FromInt(10)).level

\* ---------------------------------------------------------------------
\* heapless::HistoryBuf<FuelLevel, 16>, the field FuelMonitor::levels
\* ---------------------------------------------------------------------

\* the capacity of the history
HISTORY_CAP == 16

\* a slot of the backing array: MaybeUninit<FuelLevel>
Uninit == [init |-> FALSE, val |-> zero]
Written(t) == [init |-> TRUE, val |-> t]

\* HistoryBuf::new
HistoryBufNew ==
    [data |-> [i \in 0..(HISTORY_CAP - 1) |-> Uninit],
     write_at |-> 0,
     filled |-> FALSE]

\* write refusing a value once the history is full
write_DropWhenFull(buf, t) ==
    IF buf.filled THEN buf
    ELSE LET d == [buf.data EXCEPT ![buf.write_at] = Written(t)]
             w == buf.write_at + 1
         IN  IF w = HISTORY_CAP
                 THEN [data |-> d, write_at |-> 0, filled |-> TRUE]
                 ELSE [data |-> d, write_at |-> w, filled |-> buf.filled]

\* HistoryBuf::write
write(buf, t) ==
    LET d == [buf.data EXCEPT ![buf.write_at] = Written(t)]
        w == buf.write_at + 1
    IN  IF w = HISTORY_CAP
            THEN [data |-> d, write_at |-> 0, filled |-> TRUE]
            ELSE [data |-> d, write_at |-> w, filled |-> buf.filled]

\* len without the filled flag
len_WriteAt(buf) == buf.write_at

\* HistoryBuf::len
len(buf) == IF buf.filled THEN HISTORY_CAP ELSE buf.write_at

\* the slots data[from .. to - 1], in index order
Slice(buf, from, to) == [i \in 1..(to - from) |-> buf.data[from + i - 1].val]

\* oldest_ordered starting at slot 0 whatever write_at is
oldest_ordered_Unrotated(buf) ==
    IF buf.filled
        THEN Slice(buf, 0, HISTORY_CAP)
        ELSE Slice(buf, 0, buf.write_at)

\* HistoryBuf::oldest_ordered: the entries from the oldest to the newest
oldest_ordered(buf) ==
    IF buf.filled
        THEN Slice(buf, buf.write_at, HISTORY_CAP) \o Slice(buf, 0, buf.write_at)
        ELSE Slice(buf, 0, buf.write_at)

\* Iterator::min: of equal elements the first is kept
RECURSIVE FoldMin(_, _)
FoldMin(acc, rest) ==
    IF rest = <<>> THEN acc
    ELSE FoldMin(IF cmp(acc, Head(rest)) = "Greater" THEN Head(rest) ELSE acc,
                 Tail(rest))

IterMin(items) == IF items = <<>> THEN None ELSE Some(FoldMin(Head(items), Tail(items)))

\* Iterator::max: of equal elements the last is kept
RECURSIVE FoldMax(_, _)
FoldMax(acc, rest) ==
    IF rest = <<>> THEN acc
    ELSE FoldMax(IF cmp(acc, Head(rest)) = "Greater" THEN acc ELSE Head(rest),
                 Tail(rest))

IterMax(items) == IF items = <<>> THEN None ELSE Some(FoldMax(Head(items), Tail(items)))

\* ---------------------------------------------------------------------
\* FuelMonitor
\* ---------------------------------------------------------------------

\* FuelMonitor::new
FuelMonitorNew == [levels |-> HistoryBufNew]

\* FuelMonitor::insert
insert(self, level) == [levels |-> write(self.levels, level)]

\* FuelMonitor::min
min(self) == IterMin(oldest_ordered(self.levels))

\* FuelMonitor::max
max(self) == IterMax(oldest_ordered(self.levels))

\* the loop of FuelMonitor::mean
RECURSIVE Total(_, _)
Total(total, rest) ==
    IF rest = <<>> THEN total
    ELSE Total(FAdd(total, as_litres(Head(rest))), Tail(rest))

\* FuelMonitor::mean; a panic of with_litres is a panic of mean
mean(self) ==
    IF len(self.levels) = 0 THEN None
    ELSE LET total == Total(ZeroLit, oldest_ordered(self.levels))
             built == with_litres(FDiv(total, FromInt(len(self.levels))))
         IN  IF built.tag = "Panicked" THEN built ELSE Some(built.level)

\* ---------------------------------------------------------------------
\* State
\* ---------------------------------------------------------------------

VARIABLES
    arg,        \* the f64 a caller passes to the constructors
    made,       \* <<>>, or <<what with_litres(arg) produced>>
    parsed,     \* <<>>, or <<what with_millilitres(arg) produced>>
    scaled,     \* <<>>, or <<what with_millilitres(arg * 1000.0) produced>>
    litresOut,  \* <<>>, or <<as_litres() of the level with_litres returned>>
    mlOut,      \* <<>>, or <<as_millilitres() of that level>>
    monitor,    \* the FuelMonitor
    hist,       \* every level inserted so far, in order
    minOut,     \* <<>>, or <<what min() returned last>>, since the last insert
    maxOut,     \* the same for max()
    meanOut,    \* the same for mean()
    panicked    \* a panic has aborted the program

levelVars == <<arg, made, parsed, scaled, litresOut, mlOut>>
monitorVars == <<monitor, hist, minOut, maxOut, meanOut, panicked>>
vars == <<levelVars, monitorVars>>

\* ---------------------------------------------------------------------
\* Calls of the FuelLevel functions on one argument
\* ---------------------------------------------------------------------

InitLevel ==
    /\ arg \in F64s
    /\ made = <<>>
    /\ parsed = <<>>
    /\ scaled = <<>>
    /\ litresOut = <<>>
    /\ mlOut = <<>>
    /\ monitor = FuelMonitorNew
    /\ hist = <<>>
    /\ minOut = <<>>
    /\ maxOut = <<>>
    /\ meanOut = <<>>
    /\ panicked = FALSE

CallWithLitres ==
    /\ made = <<>>
    /\ made' = <<with_litres(arg)>>
    /\ UNCHANGED <<arg, parsed, scaled, litresOut, mlOut, monitorVars>>

CallWithMillilitres ==
    /\ parsed = <<>>
    /\ parsed' = <<with_millilitres(arg)>>
    /\ UNCHANGED <<arg, made, scaled, litresOut, mlOut, monitorVars>>

\* with_millilitres(x * 1000.0), the call of tests::with_ml for any x
CallWithMillilitresScaled ==
    /\ scaled = <<>>
    /\ scaled' = <<with_millilitres(FMul(arg, ThousandLit))>>
    /\ UNCHANGED <<arg, made, parsed, litresOut, mlOut, monitorVars>>

CallAsLitres ==
    /\ made # <<>>
    /\ made[1].tag = "Returned"
    /\ litresOut = <<>>
    /\ litresOut' = <<as_litres(made[1].level)>>
    /\ UNCHANGED <<arg, made, parsed, scaled, mlOut, monitorVars>>

CallAsMillilitres ==
    /\ made # <<>>
    /\ made[1].tag = "Returned"
    /\ mlOut = <<>>
    /\ mlOut' = <<as_millilitres(made[1].level)>>
    /\ UNCHANGED <<arg, made, parsed, scaled, litresOut, monitorVars>>

NextLevel ==
    \/ CallWithLitres
    \/ CallWithMillilitres
    \/ CallWithMillilitresScaled
    \/ CallAsLitres
    \/ CallAsMillilitres

SpecLevel == InitLevel /\ [][NextLevel]_vars

\* ---------------------------------------------------------------------
\* A caller of FuelMonitor: inserts and queries in any order
\* ---------------------------------------------------------------------

\* the longest sequence of inserts explored
MaxInserts == 18
\* how many of the inserted readings may differ from the steady reading
MaxVaried == 2

\* the readings a caller inserts, each built by with_litres
Steady == with_litres(FromInt(2)).level
Readings == {with_litres(x).level : x \in {FromInt(1), FromInt(2), F64Max}}

Varied(h) == Cardinality({i \in 1..Len(h) : h[i] # Steady})

Init ==
    /\ arg = ZeroLit
    /\ made = <<>>
    /\ parsed = <<>>
    /\ scaled = <<>>
    /\ litresOut = <<>>
    /\ mlOut = <<>>
    /\ monitor = FuelMonitorNew
    /\ hist = <<>>
    /\ minOut = <<>>
    /\ maxOut = <<>>
    /\ meanOut = <<>>
    /\ panicked = FALSE

Insert(level) ==
    /\ ~panicked
    /\ Len(hist) < MaxInserts
    /\ level # Steady => Varied(hist) < MaxVaried
    /\ monitor' = insert(monitor, level)
    /\ hist' = Append(hist, level)
    /\ minOut' = <<>>
    /\ maxOut' = <<>>
    /\ meanOut' = <<>>
    /\ UNCHANGED <<levelVars, panicked>>

\* a min() that takes the entries out of the history as it reads them
Min_Draining ==
    /\ ~panicked
    /\ minOut' = <<min(monitor)>>
    /\ monitor' = FuelMonitorNew
    /\ UNCHANGED <<levelVars, hist, maxOut, meanOut, panicked>>

Min ==
    /\ ~panicked
    /\ minOut' = <<min(monitor)>>
    /\ UNCHANGED <<levelVars, monitor, hist, maxOut, meanOut, panicked>>

Max ==
    /\ ~panicked
    /\ maxOut' = <<max(monitor)>>
    /\ UNCHANGED <<levelVars, monitor, hist, minOut, meanOut, panicked>>

Mean ==
    /\ ~panicked
    /\ meanOut' = <<mean(monitor)>>
    /\ panicked' = (mean(monitor).tag = "Panicked")
    /\ UNCHANGED <<levelVars, monitor, hist, minOut, maxOut>>

Next ==
    \/ \E level \in Readings : Insert(level)
    \/ Min
    \/ Max
    \/ Mean

Spec == Init /\ [][Next]_vars

\* ---------------------------------------------------------------------
\* What the properties are stated in
\* ---------------------------------------------------------------------

Smaller(a, b) == IF a < b THEN a ELSE b

\* the entries a monitor should hold: the last min(n, 16) inserted levels
Current ==
    SubSeq(hist, Len(hist) - Smaller(Len(hist), HISTORY_CAP) + 1, Len(hist))

Entries == oldest_ordered(monitor.levels)

\* x < 0, said of the representation: a minus sign on anything but zero or NaN
Negative(x) == x.s = 1 /\ (x.k = "inf" \/ (x.k = "fin" /\ x.n > 0))
\* non-negative and finite (the zero with a minus sign compares equal to 0.0)
Valid(x) == x.k = "fin" /\ (x.s = 0 \/ x.n = 0)

\* C1: after n inserts the monitor holds, oldest first, exactly the last
\* min(n, 16) inserted levels in insertion order; an insert into a full
\* monitor evicts the single oldest entry and no other.
C1_LastSixteenInOrder == Entries = Current

\* seventeen inserts, the first of them unlike the second: the first is gone
C1_Witness ==
    /\ Len(hist) = HISTORY_CAP + 1
    /\ hist[1] # hist[2]
    /\ Entries = SubSeq(hist, 2, HISTORY_CAP + 1)

MinRight(r) ==
    /\ r.tag = "None" <=> Len(hist) = 0
    /\ r.tag \in {"None", "Some"}
    /\ r.tag = "Some" =>
        /\ \E i \in 1..Len(Current) : FEq(r.level.level_litres, Current[i].level_litres)
        /\ \A i \in 1..Len(Current) :
               ~FGt(r.level.level_litres, Current[i].level_litres)

\* C2: min() is None exactly when the monitor is empty; otherwise its magnitude
\* is that of a current entry and at most that of every current entry; evicted
\* entries have no influence.
C2_MinOfCurrent ==
    /\ MinRight(min(monitor))
    /\ minOut # <<>> => MinRight(minOut[1])

\* min() was called after the smallest reading so far had been evicted
C2_Witness ==
    /\ Len(hist) > HISTORY_CAP
    /\ minOut # <<>>
    /\ minOut[1].tag = "Some"
    /\ FLt(hist[1].level_litres, minOut[1].level.level_litres)

MaxRight(r) ==
    /\ r.tag = "None" <=> Len(hist) = 0
    /\ r.tag \in {"None", "Some"}
    /\ r.tag = "Some" =>
        /\ \E i \in 1..Len(Current) : FEq(r.level.level_litres, Current[i].level_litres)
        /\ \A i \in 1..Len(Current) :
               ~FLt(r.level.level_litres, Current[i].level_litres)

\* C3: max() is None exactly when the monitor is empty; otherwise its magnitude
\* is that of a current entry and at least that of every current entry.
C3_MaxOfCurrent ==
    /\ MaxRight(max(monitor))
    /\ maxOut # <<>> => MaxRight(maxOut[1])

\* max() was called after the largest reading so far had been evicted
C3_Witness ==
    /\ Len(hist) > HISTORY_CAP
    /\ maxOut # <<>>
    /\ maxOut[1].tag = "Some"
    /\ FGt(hist[1].level_litres, maxOut[1].level.level_litres)

\* the sum of the current entries, oldest first, and their mean
CurrentTotal == Total(ZeroLit, Current)
CurrentMean == FDiv(CurrentTotal, FromInt(Len(Current)))

MeanRight(r) ==
    IF Len(hist) = 0 THEN r = None
    ELSE r.tag = "Some" /\ FEq(r.level.level_litres, CurrentMean)

\* C4: mean() is None on an empty monitor and otherwise returns a level whose
\* magnitude is the sum of the current entries divided by their number.
C4_MeanOfCurrent ==
    /\ MeanRight(mean(monitor))
    /\ meanOut # <<>> => MeanRight(meanOut[1])

\* C5: mean() never aborts the program when only valid levels were inserted.
C5_MeanNeverAborts ==
    /\ \A i \in 1..Len(hist) : Valid(hist[i].level_litres)
    /\ ~panicked

\* C6: with_millilitres never aborts; a negative value (minus infinity too)
\* gives NegativeFuelLevel, else NaN or an infinity gives InvalidFuelLevel,
\* else the level of magnitude value / 1000.
C6_MillilitresClassified ==
    parsed # <<>> =>
        /\ Negative(arg) => parsed[1] = Err("NegativeFuelLevel")
        /\ ~Negative(arg) /\ (arg = NaN \/ arg = Inf(0)) =>
               parsed[1] = Err("InvalidFuelLevel")
        /\ ~Negative(arg) /\ arg.k = "fin" =>
               /\ parsed[1].tag = "Ok"
               /\ parsed[1].level.level_litres = FDiv(arg, ThousandLit)

\* with_millilitres was called on minus infinity
C6_Witness == arg = Inf(1) /\ parsed = <<Err("NegativeFuelLevel")>>

\* C7: with_litres(x) panics exactly when x is negative, NaN or infinite;
\* otherwise, above FUEL_LEVEL_MAX too, the level it returns has
\* as_litres() == x and as_millilitres() == x * 1000.
C7_LitresAbortsOrKeeps ==
    /\ made # <<>> =>
        /\ made[1].tag \in {"Panicked", "Returned"}
        /\ made[1].tag = "Panicked" <=> (Negative(arg) \/ arg.k # "fin")
    /\ litresOut # <<>> => FEq(litresOut[1], arg)
    /\ mlOut # <<>> => FEq(mlOut[1], FMul(arg, ThousandLit))

\* a level above FUEL_LEVEL_MAX was built and read back in both units
C7_Witness ==
    /\ made # <<>> /\ litresOut # <<>> /\ mlOut # <<>>
    /\ FGt(made[1].level.level_litres, FUEL_LEVEL_MAX.level_litres)
    /\ litresOut[1] = arg

\* C8: a step that inserts nothing (a call of min, max or mean) leaves the
\* monitor as it was, and a query that has already answered since the last
\* insert answers the same again, whichever queries ran in between.
C8_QueriesReadOnly ==
    [][hist' = hist =>
          /\ monitor' = monitor
          /\ minOut # <<>> => minOut' = minOut
          /\ maxOut # <<>> => maxOut' = maxOut
          /\ meanOut # <<>> => meanOut' = meanOut]_vars

\* all three queries have answered on a history that has wrapped
C8_Witness ==
    /\ Len(hist) > HISTORY_CAP
    /\ minOut # <<>> /\ maxOut # <<>> /\ meanOut # <<>>
    /\ ~panicked

\* C9: the length is 0 after new(), always within 0..16, never decreases, and
\* each insert makes it min(previous + 1, 16).
C9_LengthBounded ==
    /\ len(monitor.levels) = 0
    /\ [](len(monitor.levels) \in 0..HISTORY_CAP)
    /\ [][/\ len(monitor'.levels) >= len(monitor.levels)
          /\ hist' # hist =>
                 len(monitor'.levels) = Smaller(len(monitor.levels) + 1, HISTORY_CAP)]_vars

\* two inserts into a full monitor
C9_Witness == Len(hist) = HISTORY_CAP + 2 /\ len(monitor.levels) = HISTORY_CAP

\* C10 as claimed: for every valid x, with_millilitres(x * 1000) succeeds with
\* a level equal to with_litres(x), by equality and by ordering.
C10_RoundTripExact ==
    scaled # <<>> /\ with_litres(arg).tag = "Returned" =>
        /\ ResultEq(scaled[1], Ok(with_litres(arg).level))
        /\ cmp(scaled[1].level, with_litres(arg).level) = "Equal"

\* C10 as amended: for every valid x, if x * 1000 is finite then
\* with_millilitres(x * 1000) succeeds with the level of magnitude
\* (x * 1000) / 1000, which is within one place of x and is equal to
\* with_litres(x) for x = 1.0; if x * 1000 overflows, InvalidFuelLevel.
C10_RoundTripRounded ==
    scaled # <<>> /\ with_litres(arg).tag = "Returned" =>
        LET product == FMul(arg, ThousandLit)
            back == scaled[1].level.level_litres
            gap == Key(back) - Key(arg)
        IN  IF product.k = "fin"
                THEN /\ scaled[1].tag = "Ok"
                     /\ back = FDiv(product, ThousandLit)
                     /\ gap <= Spacing(arg.n) /\ 0 - gap <= Spacing(arg.n)
                     /\ arg = FromInt(1) =>
                            /\ ResultEq(scaled[1], Ok(with_litres(arg).level))
                            /\ cmp(scaled[1].level, with_litres(arg).level) = "Equal"
                ELSE scaled[1] = Err("InvalidFuelLevel")

\* with_millilitres(1000.0) was called and gave Ok(with_litres(1.0))
C10_Witness ==
    /\ arg = FromInt(1)
    /\ scaled # <<>>
    /\ ResultEq(scaled[1], Ok(with_litres(FromInt(1)).level))

====
